---- MODULE Spec2Model ----
(***************************************************************************)
(* Model of celestial-calendar: the sexagenary (stem-branch) calendar      *)
(* arithmetic of the page (getGanZhiYear, generate60JiaZi) and the camera  *)
(* focus controller of the scene (CameraController, easeInOutCubic).       *)
(*                                                                         *)
(* Strings: the source's one-character stem and branch names are written   *)
(* in capitalised pinyin ("Jia" for the first stem, "Zi" for the first     *)
(* branch), so a name is stem \o branch as in the source; JavaScript's     *)
(* undefined prints as "undefined" and the number NaN is written "NaN".    *)
(***************************************************************************)
EXTENDS Integers, Sequences, FiniteSets, TLC

VARIABLES
    clockYear,      \* new Date().getFullYear() when the page module is loaded
    JIAZI_LIST,     \* const JIAZI_LIST = generate60JiaZi()
    year,           \* argument of the latest getGanZhiYear call
    ganZhiYear,     \* its result
    phase,          \* CameraController: "rendered", "mounted" or "unmounted"
    targetPosition, \* the targetPosition prop: <<>> for null, else <<x, y, z>>
    ctrl,           \* the controller's refs and the browser's frame callbacks
    cameraPosition, \* camera.position
    controlsTarget, \* controls.target
    now,            \* performance.now(), in ms
    progress,       \* progress of the latest animate call (<<>>: none yet)
    eased,          \* its eased value (<<>>: none yet)
    callArgs,       \* arguments of the latest call of a function or handler
    callResult,     \* the result of the latest call of a pure function
    currentTime,    \* Home: currentTime.getTime(), in minutes
    tz,             \* minutes the local time zone is east of UTC
    isPlaying,      \* Home: isPlaying
    targetPlanet,   \* Home: targetPlanet
    showJiaziModal, \* Home: showJiaziModal
    selectedBody,   \* the name of selectedBody (null written "null")
    timers,         \* the interval timers the browser holds, each [delay]
    lastOp          \* the operation that produced this state

calVars == <<clockYear, JIAZI_LIST, year, ganZhiYear>>
camVars == <<phase, targetPosition, ctrl, cameraPosition, controlsTarget,
             now, progress, eased>>
pureVars == <<callArgs, callResult>>
homeVars == <<currentTime, tz, isPlaying, targetPlanet, showJiaziModal,
              selectedBody, timers>>
vars == <<calVars, camVars, pureVars, homeVars, lastOp>>

-----------------------------------------------------------------------------
(* Bounds of the model *)

\* getGanZhiYear is called with the years -YearSpan .. YearSpan + 60
YearSpan == 70
\* the clock year at load is in -ClockSpan .. ClockSpan + 60, or ThisYear
ClockSpan == 60
ThisYear == 2026
\* requestAnimationFrame hands out the handles 1 .. MaxHandle
MaxHandle == 6
\* getGanZhiDay is called with dates -DaySpan .. DaySpan + 60 days from its
\* base date
DaySpan == 70
\* getGanZhiYear is called with the RecentSpan years up to ThisYear
RecentSpan == 120
\* the entries of the dialog are clicked while the current year is at most
\* DialogSpan years below one of the years the date input is set to
DialogSpan == 3
\* the playback runs through PlayYearCount years from FirstPlayYear on
FirstPlayYear == 2023
PlayYearCount == 2

Years == (0 - YearSpan) .. (YearSpan + 60)
ClockYears == ((0 - ClockSpan) .. (ClockSpan + 60)) \cup {ThisYear}
\* the years of the page's dates: the RecentSpan years up to ThisYear, and
\* the years from the anchor year 4 on
RecentYears == ((ThisYear - RecentSpan) .. ThisYear) \cup (4 .. (4 + RecentSpan))
\* the minute of the day of a date passed to getGanZhiDay
DayMinutes == {0, 1, 720, 1439}
\* the time zones of the browser, in minutes east of UTC
TimeZones == {0 - 300, 0, 480}
\* the years the playback runs through: a common year and a leap year
PlayYears == FirstPlayYear .. (FirstPlayYear + PlayYearCount - 1)
\* the years handleJiaziSelect is called with
SelectYears == {1984, 2022, 2026}
\* names that are no key of the cycle-name table
UnmappedNames == {"JiaChou", "ZiJia", "", "earth"}
\* the years the date input is set to before the dialog is used
DialogYears == {1, 120, 2024}
\* new Date(): the minutes from the start of the clock year to the clock read
ClockOffsets == {0, 200 * 1440 + 750}
Dates ==
    {(k - 7397) * 1440 + m : k \in (0 - DaySpan) .. (DaySpan + 60), m \in DayMinutes}

-----------------------------------------------------------------------------
(* JavaScript arithmetic and values *)

undefined == "undefined"
NaN == "NaN"

\* a % n of JavaScript for n > 0: the remainder has the sign of the dividend
JsRem(a, n) == IF a >= 0 THEN a % n ELSE 0 - ((0 - a) % n)

\* Math.floor(a / n) for n > 0
MathFloorDiv(a, n) == a \div n

\* arr[i] of a JavaScript array: undefined outside 0 .. length - 1
ArrayGet(arr, i) == IF i \in 0 .. (Len(arr) - 1) THEN arr[i + 1] ELSE undefined

\* a + b where each is a string or undefined: undefined + undefined is the
\* number NaN, otherwise undefined is converted to the string "undefined"
JsPlus(a, b) == IF a = undefined /\ b = undefined THEN NaN ELSE a \o b

-----------------------------------------------------------------------------
(* Calendar arithmetic of the page *)

HEAVENLY_STEMS ==
    <<"Jia", "Yi", "Bing", "Ding", "Wu", "Ji", "Geng", "Xin", "Ren", "Gui">>

EARTHLY_BRANCHES ==
    <<"Zi", "Chou", "Yin", "Mao", "Chen", "Si",
      "Wu", "Wei", "Shen", "You", "Xu", "Hai">>

\* the variant that takes the branch from the stem's modulus
getGanZhiYearOneModulus(y) ==
    LET offset == JsRem(y - 4, 60)
        stemIndex == JsRem(offset, 10)
    IN JsPlus(ArrayGet(HEAVENLY_STEMS, stemIndex),
              ArrayGet(EARTHLY_BRANCHES, stemIndex))

getGanZhiYear(y) ==
    LET offset == JsRem(y - 4, 60)
        stemIndex == JsRem(offset, 10)
        branchIndex == JsRem(offset, 12)
    IN JsPlus(ArrayGet(HEAVENLY_STEMS, stemIndex),
              ArrayGet(EARTHLY_BRANCHES, branchIndex))

baseYear == 4

\* the entry pushed in iteration i of the loop, currentYear being the clock year
JiaZiEntry(i, currentYear) ==
    LET stemIndex == i % 10
        branchIndex == i % 12
        name == JsPlus(ArrayGet(HEAVENLY_STEMS, stemIndex),
                       ArrayGet(EARTHLY_BRANCHES, branchIndex))
        cycles == MathFloorDiv(currentYear - baseYear, 60)
        recentYear == baseYear + i + cycles * 60
    IN IF recentYear > currentYear
       THEN [name |-> name, year |-> i, startYear |-> recentYear - 60]
       ELSE [name |-> name, year |-> i, startYear |-> recentYear]

\* the variant that never steps back by one cycle
generate60JiaZiNoStepBack(currentYear) ==
    [k \in 1 .. 60 |->
        LET e == JiaZiEntry(k - 1, currentYear)
        IN [e EXCEPT !.startYear = baseYear + (k - 1)
                + MathFloorDiv(currentYear - baseYear, 60) * 60]]

\* JIAZI_LIST[k] is the entry of index i = k - 1
generate60JiaZi(currentYear) ==
    [k \in 1 .. 60 |-> JiaZiEntry(k - 1, currentYear)]

-----------------------------------------------------------------------------
(* Dates.  A Date is its getTime() counted in minutes since 1970-01-01     *)
(* 00:00 UTC (the milliseconds below a minute are not modelled); the local *)
(* time zone is tz minutes east of UTC, without daylight saving.           *)

\* the days from 1970-01-01 to day d of month m (1 .. 12) of year y in the
\* proleptic Gregorian calendar of Date
DaysFromCivil(y, m, d) ==
    LET yy == IF m <= 2 THEN y - 1 ELSE y
        era == yy \div 400
        yoe == yy - era * 400
        mp == IF m > 2 THEN m - 3 ELSE m + 9
        doy == (153 * mp + 2) \div 5 + d - 1
        doe == yoe * 365 + yoe \div 4 - yoe \div 100 + doy
    IN era * 146097 + doe - 719468

\* the year, month (1 .. 12) and day of the month of day number z
CivilFromDays(z) ==
    LET zz == z + 719468
        era == zz \div 146097
        doe == zz - era * 146097
        yoe == (doe - doe \div 1460 + doe \div 36524 - doe \div 146096) \div 365
        doy == doe - (365 * yoe + yoe \div 4 - yoe \div 100)
        mp == (5 * doy + 2) \div 153
        m == IF mp < 10 THEN mp + 3 ELSE mp - 9
    IN [y |-> yoe + era * 400 + (IF m <= 2 THEN 1 ELSE 0),
        m |-> m,
        d |-> doy - (153 * mp + 2) \div 5 + 1]

\* new Date('YYYY-MM-DD'): midnight UTC of that day
DateUTC(y, m, d) == DaysFromCivil(y, m, d) * 1440

\* new Date(y, monthIndex, d): local midnight; a year 0 .. 99 means 1900 + y,
\* and day 0 is the day before the first of the month
DateLocal(y, monthIndex, d) ==
    LET fullYear == IF y \in 0 .. 99 THEN 1900 + y ELSE y
    IN (DaysFromCivil(fullYear, monthIndex + 1, 1) + (d - 1)) * 1440 - tz

\* date.getFullYear(), date.getMonth() and date.getDate(), in local time
getFullYear(t) == CivilFromDays(MathFloorDiv(t + tz, 1440)).y
getMonth(t) == CivilFromDays(MathFloorDiv(t + tz, 1440)).m - 1
getDate(t) == CivilFromDays(MathFloorDiv(t + tz, 1440)).d

\* getGanZhiMonth
getGanZhiMonth(y, month) ==
    LET yearStemIndex == JsRem(y - 4, 10)
        monthStemIndex == JsRem(yearStemIndex, 5) * 2 + (month - 1)
        stem == ArrayGet(HEAVENLY_STEMS, JsRem(monthStemIndex, 10))
        branch == ArrayGet(EARTHLY_BRANCHES, JsRem(month - 1, 12))
    IN JsPlus(stem, branch)

\* the variant that leaves out the 10 days added to daysDiff
getGanZhiDayNoShift(date) ==
    LET baseDate == DateUTC(1949, 10, 1)
        daysDiff == MathFloorDiv(date - baseDate, 60 * 24)
        offset == JsRem(daysDiff, 60)
    IN JsPlus(ArrayGet(HEAVENLY_STEMS, JsRem(offset, 10)),
              ArrayGet(EARTHLY_BRANCHES, JsRem(offset, 12)))

\* getGanZhiDay
getGanZhiDay(date) ==
    LET baseDate == DateUTC(1949, 10, 1)
        daysDiff == MathFloorDiv(date - baseDate, 60 * 24)
        offset == JsRem(daysDiff + 10, 60)
        stemIndex == JsRem(offset, 10)
        branchIndex == JsRem(offset, 12)
    IN JsPlus(ArrayGet(HEAVENLY_STEMS, stemIndex),
              ArrayGet(EARTHLY_BRANCHES, branchIndex))

\* SOLAR_TERMS
SOLAR_TERMS ==
    <<"LiChun", "YuShui", "JingZhe", "ChunFen", "QingMing", "GuYu",
      "LiXia", "XiaoMan", "MangZhong", "XiaZhi", "XiaoShu", "DaShu",
      "LiQiu", "ChuShu", "BaiLu", "QiuFen", "HanLu", "ShuangJiang",
      "LiDong", "XiaoXue", "DaXue", "DongZhi", "XiaoHan", "DaHan">>

\* dayOfYear of getCurrentSolarTermIndex and of getCurrentSolarTerm
dayOfYear(time) ==
    MathFloorDiv(time - DateLocal(getFullYear(time), 0, 0), 60 * 24)

\* the variant that spreads the terms over 366 days
getCurrentSolarTermIndexLeap(time) ==
    JsRem(MathFloorDiv(dayOfYear(time) * 24, 366), 24)

\* getCurrentSolarTermIndex, time being the time property of the scene
getCurrentSolarTermIndex(time) ==
    JsRem(MathFloorDiv(dayOfYear(time) * 24, 365), 24)

\* getCurrentSolarTerm
getCurrentSolarTerm(date) ==
    LET index == JsRem(MathFloorDiv(dayOfYear(date) * 24, 365), 24)
    IN ArrayGet(SOLAR_TERMS, index)

-----------------------------------------------------------------------------
(* The cycle-name table of Home *)

\* a || b for strings and undefined
JsOr(a, b) == IF a \in {undefined, ""} THEN b ELSE a

\* obj[key] of an object literal: undefined for a key it does not have
ObjectGet(obj, key) == IF key \in DOMAIN obj THEN obj[key] ELSE undefined

\* the table with the planet of the element of each name's stem
jiaziToPlanetByStem ==
    [n \in {HEAVENLY_STEMS[(i % 10) + 1] \o EARTHLY_BRANCHES[(i % 12) + 1] :
                i \in 0 .. 59} \cup {"default"} |->
        IF n = "default" THEN "earth"
        ELSE LET i == CHOOSE j \in 0 .. 59 :
                          n = HEAVENLY_STEMS[(j % 10) + 1]
                                  \o EARTHLY_BRANCHES[(j % 12) + 1]
             IN <<"jupiter", "jupiter", "mars", "mars", "saturn", "saturn",
                  "venus", "venus", "mercury", "mercury">>[(i % 10) + 1]]

\* the table without its last block of ten names
jiaziToPlanetNoSupplement ==
    ("JiaZi" :> "mercury") @@ ("YiChou" :> "mercury")
    @@ ("BingZi" :> "mercury") @@ ("DingChou" :> "mercury")
    @@ ("WuZi" :> "mercury") @@ ("JiChou" :> "mercury")
    @@ ("GengZi" :> "mercury") @@ ("XinChou" :> "mercury")
    @@ ("RenZi" :> "mercury") @@ ("GuiChou" :> "mercury")
    @@ ("RenYin" :> "jupiter") @@ ("GuiMao" :> "jupiter")
    @@ ("RenChen" :> "jupiter") @@ ("GuiSi" :> "jupiter")
    @@ ("RenWu" :> "jupiter") @@ ("GuiWei" :> "jupiter")
    @@ ("RenShen" :> "jupiter") @@ ("GuiYou" :> "jupiter")
    @@ ("RenXu" :> "jupiter") @@ ("GuiHai" :> "jupiter")
    @@ ("BingYin" :> "mars") @@ ("DingMao" :> "mars")
    @@ ("BingChen" :> "mars") @@ ("DingSi" :> "mars")
    @@ ("BingWu" :> "mars") @@ ("DingWei" :> "mars")
    @@ ("BingShen" :> "mars") @@ ("DingYou" :> "mars")
    @@ ("BingXu" :> "mars") @@ ("DingHai" :> "mars")
    @@ ("WuYin" :> "saturn") @@ ("JiMao" :> "saturn")
    @@ ("WuChen" :> "saturn") @@ ("JiSi" :> "saturn")
    @@ ("WuWu" :> "saturn") @@ ("JiWei" :> "saturn")
    @@ ("WuShen" :> "saturn") @@ ("JiYou" :> "saturn")
    @@ ("WuXu" :> "saturn") @@ ("JiHai" :> "saturn")
    @@ ("GengYin" :> "venus") @@ ("XinMao" :> "venus")
    @@ ("GengChen" :> "venus") @@ ("XinSi" :> "venus")
    @@ ("GengWu" :> "venus") @@ ("XinWei" :> "venus")
    @@ ("GengShen" :> "venus") @@ ("XinYou" :> "venus")
    @@ ("GengXu" :> "venus") @@ ("XinHai" :> "venus")
    @@ ("default" :> "earth")

\* jiaziToPlanet
jiaziToPlanet ==
    ("JiaZi" :> "mercury") @@ ("YiChou" :> "mercury")
    @@ ("BingZi" :> "mercury") @@ ("DingChou" :> "mercury")
    @@ ("WuZi" :> "mercury") @@ ("JiChou" :> "mercury")
    @@ ("GengZi" :> "mercury") @@ ("XinChou" :> "mercury")
    @@ ("RenZi" :> "mercury") @@ ("GuiChou" :> "mercury")
    @@ ("RenYin" :> "jupiter") @@ ("GuiMao" :> "jupiter")
    @@ ("RenChen" :> "jupiter") @@ ("GuiSi" :> "jupiter")
    @@ ("RenWu" :> "jupiter") @@ ("GuiWei" :> "jupiter")
    @@ ("RenShen" :> "jupiter") @@ ("GuiYou" :> "jupiter")
    @@ ("RenXu" :> "jupiter") @@ ("GuiHai" :> "jupiter")
    @@ ("BingYin" :> "mars") @@ ("DingMao" :> "mars")
    @@ ("BingChen" :> "mars") @@ ("DingSi" :> "mars")
    @@ ("BingWu" :> "mars") @@ ("DingWei" :> "mars")
    @@ ("BingShen" :> "mars") @@ ("DingYou" :> "mars")
    @@ ("BingXu" :> "mars") @@ ("DingHai" :> "mars")
    @@ ("WuYin" :> "saturn") @@ ("JiMao" :> "saturn")
    @@ ("WuChen" :> "saturn") @@ ("JiSi" :> "saturn")
    @@ ("WuWu" :> "saturn") @@ ("JiWei" :> "saturn")
    @@ ("WuShen" :> "saturn") @@ ("JiYou" :> "saturn")
    @@ ("WuXu" :> "saturn") @@ ("JiHai" :> "saturn")
    @@ ("GengYin" :> "venus") @@ ("XinMao" :> "venus")
    @@ ("GengChen" :> "venus") @@ ("XinSi" :> "venus")
    @@ ("GengWu" :> "venus") @@ ("XinWei" :> "venus")
    @@ ("GengShen" :> "venus") @@ ("XinYou" :> "venus")
    @@ ("GengXu" :> "venus") @@ ("XinHai" :> "venus")
    @@ ("JiaYin" :> "mercury") @@ ("YiMao" :> "mercury")
    @@ ("JiaChen" :> "mercury") @@ ("YiSi" :> "mercury")
    @@ ("JiaWu" :> "mercury") @@ ("YiWei" :> "mercury")
    @@ ("JiaShen" :> "mercury") @@ ("YiYou" :> "mercury")
    @@ ("JiaXu" :> "mercury") @@ ("YiHai" :> "mercury")
    @@ ("default" :> "earth")

-----------------------------------------------------------------------------
(* Numbers of the camera transition.  A progress or eased value is a       *)
(* fraction <<n, d>> in lowest terms with d > 0; coordinates lie on the    *)
(* unit grid and an interpolated coordinate is rounded down to it.         *)

RECURSIVE Gcd(_, _)
Gcd(a, b) == IF b = 0 THEN a ELSE Gcd(b, a % b)

Frac(n, d) == LET g == Gcd(IF n < 0 THEN 0 - n ELSE n, d) IN <<n \div g, d \div g>>

FracLess(p, q) == p[1] * q[2] < q[1] * p[2]
FracLeq(p, q) == p[1] * q[2] <= q[1] * p[2]

\* Math.min(elapsed / dur, 1)
MinWithOne(elapsed, dur) ==
    IF elapsed >= dur THEN <<1, 1>> ELSE Frac(elapsed, dur)

\* the variant that is 4 t^3 over the whole interval
easeInCubicOnly(t) == Frac(4 * t[1] * t[1] * t[1], t[2] * t[2] * t[2])

\* t < 0.5 ? 4 * t * t * t : 1 - Math.pow(-2 * t + 2, 3) / 2
easeInOutCubic(t) ==
    IF FracLess(t, <<1, 2>>)
    THEN Frac(4 * t[1] * t[1] * t[1], t[2] * t[2] * t[2])
    ELSE LET m == (0 - 2) * t[1] + 2 * t[2]      \* -2 t + 2, over t[2]
             d3 == t[2] * t[2] * t[2]
         IN Frac(2 * d3 - m * m * m, 2 * d3)

\* THREE.Vector3.lerpVectors(v1, v2, alpha): v1 + (v2 - v1) * alpha
lerpVectors(v1, v2, alpha) ==
    [i \in 1 .. 3 |-> v1[i] + ((v2[i] - v1[i]) * alpha[1]) \div alpha[2]]

\* THREE.Vector3.add
VecAdd(v, w) == [i \in 1 .. 3 |-> v[i] + w[i]]

-----------------------------------------------------------------------------
(* calculatePosition.  A period is written in thousandths of a day and an  *)
(* angle as the fraction of a full turn it is, in lowest terms.  A sine, a *)
(* cosine and a coordinate of the scene are written in thousandths:        *)
(* (24, 0, 0) is <<24000, 0, 0>>.                                          *)

\* the angle of turns, reduced to one turn, in minutes of arc (0 .. 21599);
\* exact for denominators below 65536
ArcMinutes(turns) ==
    LET d == turns[2]
        r == turns[1] % d
        s == d \div 65536 + 1
    IN (((r \div s) * 21600) \div (d \div s)) % 21600

\* Math.sin of m minutes of arc, to the nearest thousandth of Bhaskara's
\* rational approximation 4p / (145800000 - p), p = m (10800 - m), which is
\* within 0.002 of the sine and exact at the multiples of a quarter turn
SinOfArcMinutes(m) ==
    LET h == IF m <= 10800 THEN m ELSE m - 10800
        p == h * (10800 - h)
        q == (145800000 - p) \div 1000
        v == (4 * p + q \div 2) \div q
    IN IF m <= 10800 THEN v ELSE 0 - v

\* Math.sin(angle) and Math.cos(angle), angle being turns * Math.PI * 2
MathSin(turns) == SinOfArcMinutes(ArcMinutes(turns))
MathCos(turns) == SinOfArcMinutes((ArcMinutes(turns) + 5400) % 21600)

\* the values calculatePosition is called with that are no value of Body
NonBodies == {undefined, "", "Ceres"}
\* the distances calculatePosition is called with: those of PLANETS and the
\* Moon's
Distances == {2, 12, 18, 24, 30, 45, 60}
\* the times of the scene calculatePosition is called at
PositionTimes ==
    {15778080, 15778080 + 720, 15778080 - 525600, 29453760, 29453760 + 265575}

\* Body of astronomy-engine: each key's value is the key itself
Body ==
    [key \in {"Sun", "Moon", "Mercury", "Venus", "Earth", "Mars", "Jupiter",
              "Saturn", "Uranus", "Neptune", "Pluto", "SSB", "EMB", "Star1"}
        |-> key]

\* orbitalPeriods
orbitalPeriods ==
    ("Mercury" :> 87970) @@ ("Venus" :> 224700) @@ ("Earth" :> 365256)
    @@ ("Mars" :> 686980) @@ ("Jupiter" :> 4332590) @@ ("Saturn" :> 10759220)
    @@ ("Moon" :> 27320)

\* (a * k) mod d for d > 0, by doubling, so that no step exceeds 2 d
RECURSIVE TimesMod(_, _, _)
TimesMod(a, k, d) ==
    IF k = 0 THEN 0
    ELSE LET twice == (2 * TimesMod(a, k \div 2, d)) % d
         IN IF k % 2 = 1 THEN (twice + (a % d)) % d ELSE twice

\* the variant with x and z exchanged
PositionAtSwapped(dist, minutes, period) ==
    LET angle == Frac(TimesMod(minutes, 25, 36 * period), 36 * period)
    IN <<dist * MathSin(angle), 0, dist * MathCos(angle)>>

\* [x, y, z] at the angle that is daysSinceEpoch / period of a turn,
\* daysSinceEpoch being minutes / 1440; the angle is reduced to one turn
PositionAt(dist, minutes, period) ==
    LET angle == Frac(TimesMod(minutes, 25, 36 * period), 36 * period)
        x == dist * MathCos(angle)
        z == dist * MathSin(angle)
        y == 0
    IN <<x, y, z>>

\* the variant that falls back to a period of 365 days
calculatePositionRoundFallback(body, dist, time) ==
    LET baseDate == DateUTC(2000, 1, 1)
        bodyKey == IF \E key \in DOMAIN Body : Body[key] = body
                   THEN CHOOSE key \in DOMAIN Body : Body[key] = body
                   ELSE undefined
        entry == JsOr(bodyKey, "Earth")
        period == IF entry \in DOMAIN orbitalPeriods /\ orbitalPeriods[entry] # 0
                  THEN orbitalPeriods[entry]
                  ELSE 365000
    IN PositionAt(dist, time - baseDate, period)

\* calculatePosition(body, distance), time being the time property of the
\* scene
calculatePosition(body, dist, time) ==
    LET baseDate == DateUTC(2000, 1, 1)
        bodyKey == IF \E key \in DOMAIN Body : Body[key] = body
                   THEN CHOOSE key \in DOMAIN Body : Body[key] = body
                   ELSE undefined
        entry == JsOr(bodyKey, "Earth")
        period == IF entry \in DOMAIN orbitalPeriods /\ orbitalPeriods[entry] # 0
                  THEN orbitalPeriods[entry]
                  ELSE 365256
    IN PositionAt(dist, time - baseDate, period)

\* PLANETS: the name, the distance and the body of each entry
PLANETS ==
    [mercury |-> [name |-> "ShuiXing", distance |-> 12, body |-> Body["Mercury"]],
     venus |-> [name |-> "JinXing", distance |-> 18, body |-> Body["Venus"]],
     earth |-> [name |-> "DiQiu", distance |-> 24, body |-> Body["Earth"]],
     mars |-> [name |-> "HuoXing", distance |-> 30, body |-> Body["Mars"]],
     jupiter |-> [name |-> "MuXing", distance |-> 45, body |-> Body["Jupiter"]],
     saturn |-> [name |-> "TuXing", distance |-> 60, body |-> Body["Saturn"]]]

\* a position of the scene on the unit grid of the camera, each coordinate
\* rounded to the nearest unit
ToGrid(pos) == [i \in 1 .. 3 |-> (pos[i] + 500) \div 1000]

-----------------------------------------------------------------------------
(* CameraController.  ctrl holds controlsRef (TRUE when controlsRef.current *)
(* is set), enabled (controls.enabled), isAnimating (isAnimating.current),  *)
(* animationRef (animationRef.current, null written 0), callbacks (the      *)
(* frame callbacks the browser holds, each [handle, anim] with anim the     *)
(* values its animate closure captured) and nextHandle (the handle the next *)
(* requestAnimationFrame returns).                                          *)

null == 0
duration == 1200
timerDelay == 100
distance == 25

\* the places the scene can ask the camera to focus on
Targets == {<<0, 0, 0>>, <<24, 0, 0>>, <<0, 0, -12>>}
\* where the user can put the camera and its look-at point by hand
ManualPositions == {<<50, 30, 50>>, <<10, 40, -20>>}
ManualTargets == {<<0, 0, 0>>, <<5, 0, 5>>}
\* milliseconds between the previous step and a frame
FrameGaps == {0, 300, 600}

cancelAnimationFrame(s, h) ==
    [s EXCEPT !.callbacks = {cb \in @ : cb.handle # h}]

\* animationRef.current = requestAnimationFrame(animate)
ScheduleAnimate(s, anim) ==
    [s EXCEPT !.callbacks = @ \cup {[handle |-> s.nextHandle, anim |-> anim]},
              !.animationRef = s.nextHandle,
              !.nextHandle = @ + 1]

\* the variant that forgets cancelAnimationFrame
CleanupNoCancel(s) ==
    LET s1 == [s EXCEPT !.animationRef = null]
        s2 == IF s1.controlsRef THEN [s1 EXCEPT !.enabled = TRUE] ELSE s1
    IN [s2 EXCEPT !.isAnimating = FALSE]

\* the variant that leaves isAnimating set
CleanupKeepsAnimating(s) ==
    LET s1 == IF s.animationRef # null
              THEN [cancelAnimationFrame(s, s.animationRef)
                        EXCEPT !.animationRef = null]
              ELSE s
    IN IF s1.controlsRef THEN [s1 EXCEPT !.enabled = TRUE] ELSE s1

\* the function the effect returns
Cleanup(s) ==
    LET s1 == IF s.animationRef # null
              THEN [cancelAnimationFrame(s, s.animationRef)
                        EXCEPT !.animationRef = null]
              ELSE s
        s2 == IF s1.controlsRef THEN [s1 EXCEPT !.enabled = TRUE] ELSE s1
    IN [s2 EXCEPT !.isAnimating = FALSE]

\* the variant that leaves manual input enabled
EffectKeepsInput(s, tp) ==
    IF tp # <<>> /\ s.controlsRef /\ ~s.isAnimating
    THEN ScheduleAnimate([s EXCEPT !.isAnimating = TRUE],
             [startPosition |-> cameraPosition,
              startTarget |-> controlsTarget,
              endPosition |-> VecAdd(tp, <<distance, (distance * 6) \div 10, distance>>),
              target |-> tp,
              startTime |-> now])
    ELSE s

\* the variant whose end position is target + (distance, distance, distance)
EffectCubeOffset(s, tp) ==
    IF tp # <<>> /\ s.controlsRef /\ ~s.isAnimating
    THEN ScheduleAnimate([s EXCEPT !.enabled = FALSE, !.isAnimating = TRUE],
             [startPosition |-> cameraPosition,
              startTarget |-> controlsTarget,
              endPosition |-> VecAdd(tp, <<distance, distance, distance>>),
              target |-> tp,
              startTime |-> now])
    ELSE s

\* the body of the effect, run with the prop tp
Effect(s, tp) ==
    IF tp # <<>> /\ s.controlsRef /\ ~s.isAnimating
    THEN LET target == tp
             s1 == [s EXCEPT !.enabled = FALSE, !.isAnimating = TRUE]
             anim == [startPosition |-> cameraPosition,
                      startTarget |-> controlsTarget,
                      endPosition |-> VecAdd(target,
                          <<distance, (distance * 6) \div 10, distance>>),
                      target |-> target,
                      startTime |-> now]
             s2 == IF s1.animationRef # null
                   THEN cancelAnimationFrame(s1, s1.animationRef)
                   ELSE s1
         IN ScheduleAnimate(s2, anim)
    ELSE s

\* animate, run at time t with the captured values a, the browser having
\* taken the callback off its list (s)
animate(s, a, t) ==
    LET elapsed == t - a.startTime
        p == MinWithOne(elapsed, duration)
    IN IF FracLeq(p, <<1, 1>>)
       THEN LET e == easeInOutCubic(p)
            IN [ctrl |-> ScheduleAnimate(s, a),
                cameraPosition |-> lerpVectors(a.startPosition, a.endPosition, e),
                controlsTarget |-> lerpVectors(a.startTarget, a.target, e),
                progress |-> p,
                eased |-> e]
       ELSE [ctrl |-> [s EXCEPT !.enabled = TRUE,
                                !.isAnimating = FALSE,
                                !.animationRef = null],
             cameraPosition |-> cameraPosition,
             controlsTarget |-> controlsTarget,
             progress |-> p,
             eased |-> eased]

-----------------------------------------------------------------------------
(* Initial states *)

CalendarInit ==
    /\ clockYear \in ClockYears
    /\ JIAZI_LIST = generate60JiaZi(clockYear)
    /\ year = clockYear
    /\ ganZhiYear = getGanZhiYear(clockYear)

\* the controller is rendered and its effect has not run yet
CameraInit ==
    /\ phase = "rendered"
    /\ targetPosition = <<>>
    /\ ctrl = [controlsRef |-> FALSE, enabled |-> TRUE, isAnimating |-> FALSE,
               animationRef |-> null, callbacks |-> {}, nextHandle |-> 1]
    /\ cameraPosition = <<50, 30, 50>>
    /\ controlsTarget = <<0, 0, 0>>
    /\ now = 0
    /\ progress = <<>>
    /\ eased = <<>>

\* no pure function has been called
PureIdle ==
    /\ callArgs = <<>>
    /\ callResult = ""

\* new Date(): the times the clock can show, at any time of the clock year
ClockTimes == {DaysFromCivil(clockYear, 1, 1) * 1440 - tz + m : m \in ClockOffsets}

\* the page as first rendered at local midnight of 1 January of the clock year
HomeIdle ==
    /\ tz = 0
    /\ currentTime = DaysFromCivil(clockYear, 1, 1) * 1440 - tz
    /\ isPlaying = FALSE
    /\ targetPlanet = undefined
    /\ showJiaziModal = FALSE
    /\ selectedBody = "null"
    /\ timers = {}

-----------------------------------------------------------------------------
(* Operations of the page *)

\* setTargetPosition(pos) in the scene and the commit that follows: the
\* controller, once mounted, runs its effect's cleanup and the effect
setTargetPosition(pos) ==
    /\ phase = "mounted" => ctrl.nextHandle <= MaxHandle
    /\ targetPosition' = ToGrid(pos)
    /\ ctrl' = IF phase = "mounted"
               THEN Effect(Cleanup(ctrl), targetPosition')
               ELSE ctrl
    /\ progress' = IF ctrl'.nextHandle # ctrl.nextHandle THEN <<>> ELSE progress
    /\ eased' = IF ctrl'.nextHandle # ctrl.nextHandle THEN <<>> ELSE eased
    /\ UNCHANGED <<phase, cameraPosition, controlsTarget, now>>

\* the variant that asks for the position of the entry earth
TargetPlanetEffectEarth(planetKey, time) ==
    IF JsOr(planetKey, "") # "" /\ planetKey \in DOMAIN PLANETS
    THEN setTargetPosition(calculatePosition(PLANETS["earth"].body,
                                             PLANETS["earth"].distance, time))
    ELSE UNCHANGED camVars

\* the effect of the scene on [targetPlanet, time], run after a commit that
\* changed one of them, with their new values
TargetPlanetEffect(planetKey, time) ==
    IF JsOr(planetKey, "") # "" /\ planetKey \in DOMAIN PLANETS
    THEN LET planet == PLANETS[planetKey]
             pos == calculatePosition(planet.body, planet.distance, time)
         IN setTargetPosition(pos)
    ELSE UNCHANGED camVars

\* handleBodyClick(name, info, position) of the scene, which calls
\* handleBodyClick(name, info) of Home
handleBodyClick(name, position) ==
    /\ selectedBody' = name
    /\ setTargetPosition(position)
    /\ callArgs' = <<name, position>>
    /\ lastOp' = "handleBodyClick"
    /\ UNCHANGED <<currentTime, tz, isPlaying, targetPlanet, showJiaziModal,
                   timers, callResult, calVars>>

\* a click on the Sun
ClickSun == handleBodyClick("TaiYang", <<0, 0, 0>>)

\* a click on Earth
ClickEarth ==
    LET pos == calculatePosition(Body["Earth"], PLANETS["earth"].distance,
                                 currentTime)
    IN handleBodyClick(PLANETS["earth"].name, pos)

\* the variant that asks for the Moon's local position
ClickMoonLocal ==
    handleBodyClick("YueQiu", calculatePosition(Body["Moon"], 2, currentTime))

\* a click on the Moon
ClickMoon ==
    LET earthPos == calculatePosition(Body["Earth"], PLANETS["earth"].distance,
                                      currentTime)
        moonLocalPos == calculatePosition(Body["Moon"], 2, currentTime)
        moonPos == <<earthPos[1] + moonLocalPos[1],
                     earthPos[2] + moonLocalPos[2],
                     earthPos[3] + moonLocalPos[3]>>
    IN handleBodyClick("YueQiu", moonPos)

\* a click on one of the five planets
ClickPlanet(key) ==
    LET planet == PLANETS[key]
        pos == calculatePosition(planet.body, planet.distance, currentTime)
    IN handleBodyClick(planet.name, pos)

\* the effect of Home on [isPlaying], run after a commit that changed it,
\* with its new value: the cleanup clears the interval, the effect sets one
PlaybackEffect(playing) ==
    timers' = IF playing = isPlaying THEN timers
              ELSE IF ~playing THEN {}
              ELSE {[delay |-> timerDelay]}

\* the play button
TogglePlay ==
    /\ isPlaying' = ~isPlaying
    /\ PlaybackEffect(isPlaying')
    /\ lastOp' = "togglePlay"
    /\ UNCHANGED <<currentTime, tz, targetPlanet, showJiaziModal, selectedBody,
                   calVars, camVars, pureVars>>

\* the interval timer fires; the playback is followed to the end of the
\* last of PlayYears
TimerTick ==
    /\ timers # {}
    /\ getFullYear(currentTime) < FirstPlayYear + PlayYearCount
    /\ currentTime' = currentTime + 60 * 24
    /\ TargetPlanetEffect(targetPlanet, currentTime')
    /\ lastOp' = "tick"
    /\ UNCHANGED <<tz, isPlaying, targetPlanet, showJiaziModal, selectedBody,
                   timers, calVars, pureVars>>

\* the date input changed to the day d of month m of year y
DateInput(y, m, d) ==
    /\ currentTime' = DateUTC(y, m, d)
    /\ TargetPlanetEffect(targetPlanet, currentTime')
    /\ lastOp' = "dateInput"
    /\ UNCHANGED <<tz, isPlaying, targetPlanet, showJiaziModal, selectedBody,
                   timers, calVars, pureVars>>

\* the button that opens the dialog of the 60 names
OpenJiaziModal ==
    /\ showJiaziModal' = TRUE
    /\ lastOp' = "openJiaziModal"
    /\ UNCHANGED <<currentTime, tz, isPlaying, targetPlanet, selectedBody,
                   timers, calVars, camVars, pureVars>>

\* the variant that leaves the playback running
handleJiaziSelectKeepsPlaying(startYear, jiaziName) ==
    LET planet == JsOr(ObjectGet(jiaziToPlanet, jiaziName),
                       ObjectGet(jiaziToPlanet, "default"))
    IN /\ currentTime' = DateLocal(startYear, 0, 1)
       /\ showJiaziModal' = FALSE
       /\ targetPlanet' = IF JsOr(planet, "") # "" THEN planet ELSE "earth"
       /\ TargetPlanetEffect(targetPlanet', currentTime')
       /\ callArgs' = <<startYear, jiaziName>>
       /\ lastOp' = "handleJiaziSelect"
       /\ UNCHANGED <<tz, isPlaying, selectedBody, timers, callResult, calVars>>

\* handleJiaziSelect
handleJiaziSelect(startYear, jiaziName) ==
    LET planet == JsOr(ObjectGet(jiaziToPlanet, jiaziName),
                       ObjectGet(jiaziToPlanet, "default"))
    IN /\ currentTime' = DateLocal(startYear, 0, 1)
       /\ showJiaziModal' = FALSE
       /\ isPlaying' = FALSE
       /\ PlaybackEffect(isPlaying')
       /\ targetPlanet' = IF JsOr(planet, "") # "" THEN planet ELSE "earth"
       /\ TargetPlanetEffect(targetPlanet', currentTime')
       /\ callArgs' = <<startYear, jiaziName>>
       /\ lastOp' = "handleJiaziSelect"
       /\ UNCHANGED <<tz, selectedBody, callResult, calVars>>

\* the year the dialog shows under the entry jiazi
jiaziYear(jiazi, currentYear) ==
    jiazi.startYear + MathFloorDiv(currentYear - jiazi.startYear, 60) * 60

\* a click on the entry JIAZI_LIST[k] of the dialog of the 60 names, which
\* is rendered while showJiaziModal holds
ClickJiazi(k) ==
    LET jiazi == JIAZI_LIST[k]
        currentYear == getFullYear(currentTime)
    IN /\ showJiaziModal
       /\ handleJiaziSelect(jiaziYear(jiazi, currentYear), jiazi.name)

\* handleResetToNow
handleResetToNow ==
    /\ currentTime' \in ClockTimes
    /\ targetPlanet' = undefined
    /\ isPlaying' = FALSE
    /\ PlaybackEffect(isPlaying')
    /\ TargetPlanetEffect(targetPlanet', currentTime')
    /\ lastOp' = "handleResetToNow"
    /\ UNCHANGED <<tz, showJiaziModal, selectedBody, calVars, pureVars>>

\* calculatePosition(body, distance) with the arguments drawn, at the time
\* of the scene
CallCalculatePosition ==
    /\ lastOp = "init"
    /\ callResult' = calculatePosition(callArgs[1], callArgs[2], currentTime)
    /\ lastOp' = "calculatePosition"
    /\ UNCHANGED <<callArgs, calVars, camVars, homeVars>>

\* getGanZhiMonth(year, month) with the arguments drawn
CallGetGanZhiMonth ==
    /\ lastOp = "init"
    /\ callResult' = getGanZhiMonth(callArgs[1], callArgs[2])
    /\ lastOp' = "getGanZhiMonth"
    /\ UNCHANGED <<callArgs, calVars, camVars, homeVars>>

\* getGanZhiDay(date) with the argument drawn
CallGetGanZhiDay ==
    /\ lastOp = "init"
    /\ callResult' = getGanZhiDay(callArgs[1])
    /\ lastOp' = "getGanZhiDay"
    /\ UNCHANGED <<callArgs, calVars, camVars, homeVars>>

\* const ganZhiYear = getGanZhiYear(year)
CallGetGanZhiYear(y) ==
    /\ year' = y
    /\ ganZhiYear' = getGanZhiYear(y)
    /\ lastOp' = "getGanZhiYear"
    /\ UNCHANGED <<clockYear, JIAZI_LIST, camVars, pureVars, homeVars>>

-----------------------------------------------------------------------------
(* Operations of the camera controller *)

\* the first commit: the ref is attached, then the effect runs
Mount ==
    /\ phase = "rendered"
    /\ phase' = "mounted"
    /\ ctrl' = Effect([ctrl EXCEPT !.controlsRef = TRUE], targetPosition)
    /\ lastOp' = "mount"
    /\ UNCHANGED <<targetPosition, cameraPosition, controlsTarget, now,
                   progress, eased, calVars, pureVars, homeVars>>

\* setTargetPosition(t): the effect's cleanup runs, then the effect with t
FocusRequest(t) ==
    /\ phase = "mounted"
    /\ ctrl.nextHandle <= MaxHandle
    /\ targetPosition' = t
    /\ ctrl' = Effect(Cleanup(ctrl), t)
    /\ progress' = IF ctrl'.nextHandle # ctrl.nextHandle THEN <<>> ELSE progress
    /\ eased' = IF ctrl'.nextHandle # ctrl.nextHandle THEN <<>> ELSE eased
    /\ lastOp' = "focus"
    /\ UNCHANGED <<phase, cameraPosition, controlsTarget, now, calVars,
                   pureVars, homeVars>>

\* the browser runs the frame callback cb, d ms after the previous step
Frame(cb, d) ==
    /\ ctrl.nextHandle <= MaxHandle
    /\ now' = now + d
    /\ LET r == animate([ctrl EXCEPT !.callbacks = @ \ {cb}], cb.anim, now')
       IN /\ ctrl' = r.ctrl
          /\ cameraPosition' = r.cameraPosition
          /\ controlsTarget' = r.controlsTarget
          /\ progress' = r.progress
          /\ eased' = r.eased
    /\ lastOp' = "frame"
    /\ UNCHANGED <<phase, targetPosition, calVars, pureVars, homeVars>>

\* the user drags, zooms or pans through OrbitControls
ManualInput(p, q) ==
    /\ phase = "mounted"
    /\ ctrl.enabled
    /\ cameraPosition' = p
    /\ controlsTarget' = q
    /\ <<cameraPosition', controlsTarget'>> # <<cameraPosition, controlsTarget>>
    /\ lastOp' = "manual"
    /\ UNCHANGED <<phase, targetPosition, ctrl, now, progress, eased, calVars, pureVars, homeVars>>

\* the controller is unmounted: the effect's cleanup runs, reading the
\* controlsRef.current that the mount attached
Teardown ==
    /\ phase = "mounted"
    /\ phase' = "unmounted"
    /\ ctrl' = Cleanup(ctrl)
    /\ lastOp' = "teardown"
    /\ UNCHANGED <<targetPosition, cameraPosition, controlsTarget, now,
                   progress, eased, calVars, pureVars, homeVars>>

-----------------------------------------------------------------------------
(* Specifications *)

\* the page is loaded in ThisYear and getGanZhiYear is called with any year
YearSpecInit ==
    /\ CalendarInit
    /\ clockYear = ThisYear
    /\ CameraInit
    /\ PureIdle
    /\ HomeIdle
    /\ lastOp = "init"

YearNext == \E y \in Years : CallGetGanZhiYear(y)

YearSpec == YearSpecInit /\ [][YearNext]_vars

\* the page is loaded in ThisYear and shows a date of any of RecentYears
RecentSpecInit == YearSpecInit

RecentNext == \E y \in RecentYears : CallGetGanZhiYear(y)

RecentSpec == RecentSpecInit /\ [][RecentNext]_vars

\* the page is loaded in any clock year and getGanZhiYear is called with the
\* year of an entry of JIAZI_LIST
CycleSpecInit ==
    CalendarInit /\ CameraInit /\ PureIdle /\ HomeIdle /\ lastOp = "init"

CycleNext == \E k \in 1 .. 60 : CallGetGanZhiYear(JIAZI_LIST[k].startYear)

CycleSpec == CycleSpecInit /\ [][CycleNext]_vars

CameraSpecInit ==
    /\ CalendarInit
    /\ clockYear = ThisYear
    /\ CameraInit
    /\ PureIdle
    /\ HomeIdle
    /\ lastOp = "init"

CameraNext ==
    \/ Mount
    \/ \E t \in Targets : FocusRequest(t)
    \/ \E cb \in ctrl.callbacks : \E d \in FrameGaps : Frame(cb, d)
    \/ \E p \in ManualPositions : \E q \in ManualTargets : ManualInput(p, q)
    \/ Teardown

CameraSpec == CameraSpecInit /\ [][CameraNext]_vars

\* getGanZhiMonth is called with any year and any month 1 .. 12
MonthSpecInit ==
    /\ CalendarInit
    /\ clockYear = ThisYear
    /\ CameraInit
    /\ HomeIdle
    /\ callArgs \in {<<y, m>> : y \in Years, m \in 1 .. 12}
    /\ callResult = ""
    /\ lastOp = "init"

MonthNext == CallGetGanZhiMonth

MonthSpec == MonthSpecInit /\ [][MonthNext]_vars

\* getGanZhiDay is called with any date
DaySpecInit ==
    /\ CalendarInit
    /\ clockYear = ThisYear
    /\ CameraInit
    /\ HomeIdle
    /\ callArgs \in {<<t>> : t \in Dates}
    /\ callResult = ""
    /\ lastOp = "init"

DayNext == CallGetGanZhiDay

DaySpec == DaySpecInit /\ [][DayNext]_vars

\* the page is opened in any time zone at some time of ThisYear; the date is
\* set to 1 January of one of PlayYears and played
PlaySpecInit ==
    /\ CalendarInit
    /\ clockYear = ThisYear
    /\ CameraInit
    /\ PureIdle
    /\ tz \in TimeZones
    /\ currentTime \in ClockTimes
    /\ isPlaying = FALSE
    /\ targetPlanet = undefined
    /\ showJiaziModal = FALSE
    /\ selectedBody = "null"
    /\ timers = {}
    /\ lastOp = "init"

PlayNext ==
    \/ TogglePlay
    \/ TimerTick
    \/ \E y \in PlayYears : DateInput(y, 1, 1)
    \/ \E y \in PlayYears : handleJiaziSelect(y, "JiaZi")

PlaySpec == PlaySpecInit /\ [][PlayNext]_vars

\* calculatePosition is called with any value as the body, any distance and
\* any time of the scene
PositionSpecInit ==
    /\ CalendarInit
    /\ clockYear = ThisYear
    /\ CameraInit
    /\ tz = 0
    /\ currentTime \in PositionTimes
    /\ isPlaying = FALSE
    /\ targetPlanet = undefined
    /\ showJiaziModal = FALSE
    /\ selectedBody = "null"
    /\ timers = {}
    /\ callArgs \in {<<body, dist>> :
                        body \in {Body[key] : key \in DOMAIN Body} \cup NonBodies,
                        dist \in Distances}
    /\ callResult = ""
    /\ lastOp = "init"

PositionNext == CallCalculatePosition

PositionSpec == PositionSpecInit /\ [][PositionNext]_vars

\* the scene is shown at any of PositionTimes; the controller mounts, the
\* bodies are clicked and the frames of the camera transition run
SceneSpecInit ==
    /\ CalendarInit
    /\ clockYear = ThisYear
    /\ CameraInit
    /\ PureIdle
    /\ tz = 0
    /\ currentTime \in PositionTimes
    /\ isPlaying = FALSE
    /\ targetPlanet = undefined
    /\ showJiaziModal = FALSE
    /\ selectedBody = "null"
    /\ timers = {}
    /\ lastOp = "init"

SceneNext ==
    \/ Mount
    \/ ClickSun
    \/ ClickEarth
    \/ ClickMoon
    \/ \E key \in DOMAIN PLANETS \ {"earth"} : ClickPlanet(key)
    \/ \E cb \in ctrl.callbacks : Frame(cb, 600)

SceneSpec == SceneSpecInit /\ [][SceneNext]_vars

\* the page is opened in any time zone; the date is set to
\* 1 January of one of DialogYears, the playback toggled, the dialog opened
\* and its entries clicked, down to DialogSpan years below DialogYears
DialogSpecInit ==
    /\ CalendarInit
    /\ clockYear = ThisYear
    /\ CameraInit
    /\ PureIdle
    /\ tz \in TimeZones
    /\ currentTime \in ClockTimes
    /\ isPlaying = FALSE
    /\ targetPlanet = undefined
    /\ showJiaziModal = FALSE
    /\ selectedBody = "null"
    /\ timers = {}
    /\ lastOp = "init"

DialogNext ==
    \/ TogglePlay
    \/ OpenJiaziModal
    \/ \E y \in DialogYears : DateInput(y, 1, 1)
    \/ /\ \E y \in DialogYears :
              getFullYear(currentTime) \in (y - 1 - DialogSpan) .. y
       /\ \E k \in 1 .. 60 : ClickJiazi(k)

DialogSpec == DialogSpecInit /\ [][DialogNext]_vars

\* the page is opened in any time zone; the dialog is opened, the playback
\* toggled, the time reset and handleJiaziSelect called with a name of
\* JIAZI_LIST, with the key of the default or with a name that is no key
SelectSpecInit ==
    /\ CalendarInit
    /\ clockYear = ThisYear
    /\ CameraInit
    /\ PureIdle
    /\ tz \in TimeZones
    /\ currentTime \in ClockTimes
    /\ isPlaying = FALSE
    /\ targetPlanet = undefined
    /\ showJiaziModal = FALSE
    /\ selectedBody = "null"
    /\ timers = {}
    /\ lastOp = "init"

SelectNext ==
    \/ TogglePlay
    \/ OpenJiaziModal
    \/ handleResetToNow
    \/ \E y \in SelectYears, k \in 1 .. 60 :
           handleJiaziSelect(y, JIAZI_LIST[k].name)
    \/ \E y \in SelectYears, n \in UnmappedNames \cup {"default"} :
           handleJiaziSelect(y, n)

SelectSpec == SelectSpecInit /\ [][SelectNext]_vars

-----------------------------------------------------------------------------
(* Properties of the calendar arithmetic *)

\* C1: getGanZhiYear(Y) is the label getGanZhiYear(Y + 60), for every
\* integer year Y, the years below 4 and the negative years included.
YearLabelHasPeriod60 ==
    lastOp = "getGanZhiYear" => ganZhiYear = getGanZhiYear(year + 60)

\* C2: for every integer year the label is the stem of index offset mod 10
\* followed by the branch of index offset mod 12, where offset is
\* (year - 4) mod 60 taken in 0 .. 59: one of the 60 stem-branch names.
YearLabelUsesFlooredModulo ==
    LET offset == (year - 4) % 60
    IN ganZhiYear = HEAVENLY_STEMS[(offset % 10) + 1]
                        \o EARTHLY_BRANCHES[(offset % 12) + 1]

\* C3: JIAZI_LIST has exactly 60 entries, their names are pairwise distinct,
\* and getGanZhiYear of every entry's startYear is the entry's name, whatever
\* the clock year at generation time.
CycleNamesMatchStartYears ==
    /\ Len(JIAZI_LIST) = 60
    /\ \A j, k \in 1 .. 60 : j # k => JIAZI_LIST[j].name # JIAZI_LIST[k].name
    /\ \A k \in 1 .. 60 :
           getGanZhiYear(JIAZI_LIST[k].startYear) = JIAZI_LIST[k].name
    /\ lastOp = "getGanZhiYear" => \E k \in 1 .. 60 :
           JIAZI_LIST[k].startYear = year /\ JIAZI_LIST[k].name = ganZhiYear

\* C4: the startYear of the entry of index i is the latest year not after
\* the clock year R whose offset from year 4 is i modulo 60: it lies in
\* R - 59 .. R, and it is the naive candidate 4 + i + floor((R - 4) / 60) * 60
\* stepped back by 60 exactly when that candidate exceeds R.
StartYearIsMostRecent ==
    \A k \in 1 .. 60 :
        LET i == k - 1
            R == clockYear
            startYear == JIAZI_LIST[k].startYear
            naive == 4 + i + ((R - 4) \div 60) * 60
        IN /\ R - 60 < startYear
           /\ startYear <= R
           /\ (startYear - 4) % 60 = i
           /\ startYear = IF naive > R THEN naive - 60 ELSE naive

\* C4, its case reached: loaded in 2026, the last entry is stepped back to
\* 1983 and the first is not (1984), and that year has been looked up.
StartYearWitness ==
    /\ clockYear = 2026
    /\ JIAZI_LIST[1].startYear = 1984
    /\ JIAZI_LIST[60].startYear = 1983
    /\ lastOp = "getGanZhiYear"
    /\ year = 1983

-----------------------------------------------------------------------------
(* Properties of the camera controller *)

InFlight == ctrl.callbacks # {}

\* C5: once a frame has run with progress 1 the controller is idle again:
\* manual input is enabled, isAnimating is false, animationRef is null and
\* no frame callback is scheduled.
TransitionEndsAtProgressOne ==
    (lastOp = "frame" /\ progress = <<1, 1>>) =>
        /\ ctrl.enabled
        /\ ~ctrl.isAnimating
        /\ ctrl.animationRef = null
        /\ ctrl.callbacks = {}

\* C6: while a transition is in flight (a frame callback is scheduled,
\* isAnimating is set or a handle is stored) manual input is disabled, so
\* every frame of a transition runs and ends with manual input disabled.
ManualInputOffInFlight ==
    /\ (InFlight \/ ctrl.isAnimating \/ ctrl.animationRef # null) => ~ctrl.enabled
    /\ lastOp = "frame" => ~ctrl.enabled

\* C6, its case reached: a frame of a transition has run, the transition is
\* still in flight and manual input is off.
ManualInputOffWitness ==
    /\ lastOp = "frame"
    /\ InFlight
    /\ progress = <<1, 2>>
    /\ ~ctrl.enabled

\* C7 as stated: a focus request that arrives while a transition is in
\* flight is ignored, the transition in flight keeping its captured start
\* position, start target, end position and start time.
FocusRequestInFlightIgnored ==
    [][(InFlight /\ lastOp' = "focus") => ctrl'.callbacks = ctrl.callbacks]_vars

\* C7 amended: a focus request that arrives while a transition is in flight
\* cancels it and starts a new transition to the requested point, which
\* captures the camera position and look-at point of that moment, the end
\* position target + (25, 15, 25) and the current time.
FocusRequestInFlightRestarts ==
    [][(InFlight /\ lastOp' = "focus") =>
          ctrl'.callbacks =
              {[handle |-> ctrl.nextHandle,
                anim |-> [startPosition |-> cameraPosition,
                          startTarget |-> controlsTarget,
                          endPosition |-> <<targetPosition'[1] + 25,
                                            targetPosition'[2] + 15,
                                            targetPosition'[3] + 25>>,
                          target |-> targetPosition',
                          startTime |-> now]]}]_vars

\* C7, its case reached: 600 ms into the transition to (24, 0, 0), with the
\* camera half way at (49, 22, 37), the Sun is requested and the scheduled
\* transition is the new one.
FocusRequestInFlightWitness ==
    /\ lastOp = "focus"
    /\ targetPosition = <<0, 0, 0>>
    /\ now = 600
    /\ cameraPosition = <<49, 22, 37>>
    /\ \E cb \in ctrl.callbacks :
           /\ cb.anim.startPosition = <<49, 22, 37>>
           /\ cb.anim.startTime = 600
           /\ cb.anim.target = <<0, 0, 0>>

OneCallbackAtATime ==
    /\ [](/\ Cardinality(ctrl.callbacks) <= 1
          /\ ctrl.callbacks = {} => ctrl.animationRef = null
          /\ \A cb \in ctrl.callbacks : ctrl.animationRef = cb.handle)
    /\ [][lastOp' = "focus" => ctrl'.callbacks \cap ctrl.callbacks = {}]_vars

\* C9, its case reached: a focus request has replaced a transition that had
\* already run a frame, and one callback is scheduled.
OneCallbackWitness ==
    /\ lastOp = "focus"
    /\ now > 0
    /\ \E cb \in ctrl.callbacks : cb.handle >= 3 /\ cb.handle = ctrl.animationRef

\* C10: in a frame of a transition progress is elapsed / 1200 clamped to
\* 0 .. 1; the eased value is 0 at progress 0, 1/2 at 1/2 and 1 at 1; the
\* camera is at the start position at progress 0 and at the end position,
\* looking at the target, at progress 1.
EaseEndpoints ==
    lastOp = "frame" =>
        \A cb \in ctrl.callbacks :
            LET a == cb.anim
                elapsed == now - a.startTime
                clamped == IF elapsed < 0 THEN 0
                           ELSE IF elapsed > 1200 THEN 1200 ELSE elapsed
            IN /\ progress[1] * 1200 = clamped * progress[2]
               /\ progress = <<0, 1>> =>
                      eased = <<0, 1>> /\ cameraPosition = a.startPosition
                                       /\ controlsTarget = a.startTarget
               /\ progress = <<1, 2>> => eased = <<1, 2>>
               /\ progress = <<1, 1>> =>
                      eased = <<1, 1>> /\ cameraPosition = a.endPosition
                                       /\ controlsTarget = a.target

\* C10, its case reached: the frame at which progress reaches 1 has put the
\* camera at the end position of the transition to (24, 0, 0).
EaseEndpointsWitness ==
    /\ lastOp = "frame"
    /\ progress = <<1, 1>>
    /\ eased = <<1, 1>>
    /\ cameraPosition = <<49, 15, 25>>
    /\ controlsTarget = <<24, 0, 0>>

\* C11: a mount or focus request with a non-null target starts a transition
\* whose start position and start target are the camera position and look-at
\* point of that moment, whose end position is target + (25, 15, 25) and
\* whose end target is the target; with a null target nothing is started;
\* a transition reaches progress 1 exactly when 1200 ms have elapsed.
TransitionStartCaptures ==
    /\ [][lastOp' \in {"mount", "focus"} =>
            IF targetPosition' = <<>>
            THEN /\ ctrl'.callbacks = {}
                 /\ ctrl'.animationRef = null
                 /\ ~ctrl'.isAnimating
                 /\ ctrl'.enabled
            ELSE \E cb \in ctrl'.callbacks :
                    /\ cb.handle \notin {c.handle : c \in ctrl.callbacks}
                    /\ cb.anim.startPosition = cameraPosition
                    /\ cb.anim.startTarget = controlsTarget
                    /\ cb.anim.endPosition[1] = targetPosition'[1] + 25
                    /\ cb.anim.endPosition[2] = targetPosition'[2] + 15
                    /\ cb.anim.endPosition[3] = targetPosition'[3] + 25
                    /\ cb.anim.target = targetPosition'
                    /\ cb.anim.startTime = now]_vars
    /\ [](lastOp = "frame" =>
            \A cb \in ctrl.callbacks :
                (progress = <<1, 1>>) <=> (now - cb.anim.startTime >= 1200))

\* C11, its case reached: from Idle, after the user moved the camera to
\* (10, 40, -20) looking at (5, 0, 5), the point (0, 0, -12) is requested.
TransitionStartWitness ==
    /\ lastOp = "focus"
    /\ targetPosition = <<0, 0, -12>>
    /\ \E cb \in ctrl.callbacks :
           /\ cb.anim.startPosition = <<10, 40, -20>>
           /\ cb.anim.startTarget = <<5, 0, 5>>
           /\ cb.anim.endPosition = <<25, 15, 13>>
           /\ cb.anim.target = <<0, 0, -12>>

-----------------------------------------------------------------------------
(* Properties of the month and day labels *)

\* C12: for every date getGanZhiDay is the stem of index offset mod 10
\* followed by the branch of index offset mod 12, where offset is (the
\* floored number of days from 1949-10-01 to the date, plus 10) mod 60 taken
\* in 0 .. 59, also before the base date, and it repeats every 60 days.
DayLabelUsesFlooredModulo ==
    lastOp = "getGanZhiDay" =>
        LET date == callArgs[1]
            days == (date - (0 - 10651680)) \div 1440
            offset == (days + 10) % 60
        IN /\ callResult = HEAVENLY_STEMS[(offset % 10) + 1]
                               \o EARTHLY_BRANCHES[(offset % 12) + 1]
           /\ callResult = getGanZhiDay(date + 60 * 1440)

\* C13 as stated: getGanZhiDay of the base date 1949-10-01 is GuiSi.
AnchorDayIsGuiSi ==
    (lastOp = "getGanZhiDay" /\ callArgs[1] = 0 - 10651680) =>
        callResult = "GuiSi"

\* C13 amended: getGanZhiDay of the base date 1949-10-01, and of every time
\* of that UTC day, is JiaXu: offset 10, stem index 0 and branch index 10.
AnchorDayIsJiaXu ==
    (lastOp = "getGanZhiDay"
        /\ callArgs[1] \in (0 - 10651680) .. (0 - 10651680 + 1439)) =>
        callResult = "JiaXu"

\* C13, its case reached: getGanZhiDay has been called with 1949-10-01
\* 00:00 UTC.
AnchorDayWitness ==
    /\ lastOp = "getGanZhiDay"
    /\ callArgs = <<0 - 10651680>>
    /\ callResult = "JiaXu"

\* C14: for every integer year and month 1 .. 12 getGanZhiMonth is the stem
\* of index ((yearStemIndex mod 5) * 2 + month - 1) mod 10, yearStemIndex
\* being the stem index of the year's label, followed by the branch of index
\* (month - 1) mod 12: a stem and a branch.
MonthLabelIndexesInRange ==
    lastOp = "getGanZhiMonth" =>
        LET y == callArgs[1]
            month == callArgs[2]
            yearStemIndex == ((y - 4) % 60) % 10
            stemIndex == ((yearStemIndex % 5) * 2 + (month - 1)) % 10
            branchIndex == (month - 1) % 12
        IN callResult = HEAVENLY_STEMS[stemIndex + 1]
                            \o EARTHLY_BRANCHES[branchIndex + 1]

-----------------------------------------------------------------------------
(* Properties of the solar term *)

-----------------------------------------------------------------------------
(* Properties of the cycle-name table *)

\* C16: for every one of the 60 cycle names the body chosen by the table is
\* the planet of the element of the name's stem: Jia and Yi (wood) jupiter,
\* Bing and Ding (fire) mars, Wu and Ji (earth) saturn, Geng and Xin (metal)
\* venus, Ren and Gui (water) mercury.
TablePlanetIsStemElement ==
    lastOp = "handleJiaziSelect" =>
        \A i \in 0 .. 59 :
            callArgs[2] = HEAVENLY_STEMS[(i % 10) + 1]
                              \o EARTHLY_BRANCHES[(i % 12) + 1]
            => targetPlanet =
                   <<"jupiter", "jupiter", "mars", "mars", "saturn", "saturn",
                     "venus", "venus", "mercury", "mercury">>[(i % 10) + 1]

\* C17: selecting the cycle name RenYin sets the target body to jupiter.
RenYinSelectsJupiter ==
    (lastOp = "handleJiaziSelect" /\ callArgs[2] = "RenYin") =>
        targetPlanet = "jupiter"

\* C17, its case reached: RenYin has been selected.
RenYinWitness ==
    /\ lastOp = "handleJiaziSelect"
    /\ callArgs = <<2022, "RenYin">>
    /\ targetPlanet = "jupiter"

\* C18: each of the 60 names of JIAZI_LIST has its own entry in the table,
\* which is one of mercury, venus, mars, jupiter and saturn, and selecting
\* the name sets that planet, never the default earth.
TableCoversJiaziList ==
    \A k \in 1 .. 60 :
        /\ JIAZI_LIST[k].name \in DOMAIN jiaziToPlanet
        /\ ObjectGet(jiaziToPlanet, JIAZI_LIST[k].name)
               \in {"mercury", "venus", "mars", "jupiter", "saturn"}
        /\ (lastOp = "handleJiaziSelect" /\ callArgs[2] = JIAZI_LIST[k].name)
               => /\ targetPlanet = ObjectGet(jiaziToPlanet, JIAZI_LIST[k].name)
                  /\ targetPlanet # "earth"

\* C18, its case reached: the name of index 50, of the last block of the
\* table, has been selected.
TableCoversWitness ==
    /\ lastOp = "handleJiaziSelect"
    /\ callArgs[2] = JIAZI_LIST[51].name
    /\ callArgs[2] = "JiaYin"
    /\ targetPlanet = "mercury"

-----------------------------------------------------------------------------
(* Properties of calculatePosition *)

\* C20: calculatePosition of a body whose name is no key of orbitalPeriods
\* (a value that is no Body, or the Sun) is the position at distance and at
\* the angle of Earth's period of 365.256 days; each of Mercury, Venus,
\* Earth, Mars, Jupiter, Saturn and Moon is a key of orbitalPeriods and has
\* the position at the angle of its own period.
PeriodFallbackIsEarth ==
    lastOp = "calculatePosition" =>
        LET body == callArgs[1]
            minutes == currentTime - 15778080
            own == ("Mercury" :> 87970) @@ ("Venus" :> 224700)
                   @@ ("Earth" :> 365256) @@ ("Mars" :> 686980)
                   @@ ("Jupiter" :> 4332590) @@ ("Saturn" :> 10759220)
                   @@ ("Moon" :> 27320)
            period == IF body \in DOMAIN own THEN own[body] ELSE 365256
            angle == Frac(minutes * 25, 36 * period)
        IN /\ body \in DOMAIN own => body \in DOMAIN orbitalPeriods
           /\ callResult[1] = callArgs[2] * MathCos(angle)
           /\ callResult[2] = 0
           /\ callResult[3] = callArgs[2] * MathSin(angle)

\* C20, its case reached: calculatePosition has been called with the Sun at
\* 2026-01-01, 9497 days after the base date.
PeriodFallbackWitness ==
    /\ lastOp = "calculatePosition"
    /\ callArgs = <<"Sun", 24>>
    /\ currentTime = 29453760
    /\ callResult = <<24000, 0, 144>>

\* C21: at the reference epoch 2000-01-01T00:00Z daysSinceEpoch is 0 and the
\* angle is 0 for every period, so calculatePosition returns
\* (distance, 0, 0) for any body, (24, 0, 0) for Earth at its distance 24.
EpochPositionOnXAxis ==
    (lastOp = "calculatePosition" /\ currentTime = 15778080) =>
        /\ \A body \in DOMAIN orbitalPeriods :
               Frac((currentTime - 15778080) * 25,
                    36 * orbitalPeriods[body]) = <<0, 1>>
        /\ callResult = <<callArgs[2] * 1000, 0, 0>>
        /\ callArgs = <<"Earth", 24>> => callResult = <<24000, 0, 0>>

\* C21, its case reached: calculatePosition has been called with Earth and
\* its distance at the epoch.
EpochPositionWitness ==
    /\ lastOp = "calculatePosition"
    /\ currentTime = 15778080
    /\ callArgs = <<"Earth", 24>>
    /\ callResult = <<24000, 0, 0>>

-----------------------------------------------------------------------------
(* Properties of the scene *)

\* C22: calculatePosition of the Moon is a point of the circle of radius 2
\* about the origin, at the angle of the Moon's own period, with nothing of
\* Earth's position in it; the focus point requested by a click on the Moon
\* is the component-wise sum of Earth's position and that local position at
\* the same time.
MoonFocusIsEarthPlusLocal ==
    LET minutes == currentTime - 15778080
        local == calculatePosition(Body["Moon"], 2, currentTime)
        earth == PositionAt(24, minutes, 365256)
        turns == Frac(minutes * 25, 36 * 27320)
    IN /\ local = <<2 * MathCos(turns), 0, 2 * MathSin(turns)>>
       /\ local[1] * local[1] + local[3] * local[3] \in 3960000 .. 4040000
       /\ (lastOp = "handleBodyClick" /\ callArgs[1] = "YueQiu") =>
              /\ callArgs[2] = <<earth[1] + local[1], earth[2] + local[2],
                                 earth[3] + local[3]>>
              /\ targetPosition = ToGrid(callArgs[2])
              /\ phase = "mounted" =>
                     \E cb \in ctrl.callbacks : cb.anim.target = targetPosition

\* C22, its case reached: the Moon has been clicked at the epoch, with Earth
\* at (24, 0, 0) and the Moon at (2, 0, 0) from it, and the camera is on its
\* way to their sum.
MoonFocusWitness ==
    /\ lastOp = "handleBodyClick"
    /\ callArgs = <<"YueQiu", <<26000, 0, 0>>>>
    /\ targetPosition = <<26, 0, 0>>
    /\ \E cb \in ctrl.callbacks : cb.anim.target = <<26, 0, 0>>

-----------------------------------------------------------------------------
(* Properties of the year label from the anchor year on *)

\* C23: getGanZhiYear(4) is JiaZi and getGanZhiYear(2024) is JiaChen; for
\* every year from 4 on the label is the name of index (year - 4) mod 60 of
\* the cycle of 60, the stem of index i mod 10 with the branch of index
\* i mod 12.
YearLabelFromAnchor ==
    (lastOp = "getGanZhiYear" /\ year >= 4) =>
        LET i == (year - 4) % 60
        IN /\ ganZhiYear = HEAVENLY_STEMS[(i % 10) + 1]
                               \o EARTHLY_BRANCHES[(i % 12) + 1]
           /\ year = 4 => ganZhiYear = "JiaZi"
           /\ year = 2024 => ganZhiYear = "JiaChen"

\* C23, its case reached: getGanZhiYear has been called with 2024.
YearLabelAnchorWitness ==
    /\ lastOp = "getGanZhiYear"
    /\ year = 2024
    /\ ganZhiYear = "JiaChen"

-----------------------------------------------------------------------------
(* Properties of the dialog of the 60 names *)

\* C24: after a click on an entry of the dialog the current time is
\* 1 January of the year shown under the entry, the year label of the new
\* current year is the entry's name, the playback is stopped, and the focus
\* point requested from the camera is the position of the planet mapped to
\* the name, computed at the new time.
DialogClickMovesScene ==
    lastOp = "handleJiaziSelect" =>
        LET shownYear == callArgs[1]
            name == callArgs[2]
            planet == PLANETS[jiaziToPlanet[name]]
        IN /\ getFullYear(currentTime) = shownYear
           /\ getMonth(currentTime) = 0
           /\ getDate(currentTime) = 1
           /\ getGanZhiYear(getFullYear(currentTime)) = name
           /\ ~isPlaying
           /\ targetPosition = ToGrid(calculatePosition(planet.body,
                                          planet.distance, currentTime))

-----------------------------------------------------------------------------
(* Properties of the playback *)

\* C25: while the playback is on the simulated time advances at the rate the
\* interface shows, one day per second of real time: the timer fires once
\* per 1000 ms, only while the playback is on, and each firing adds 24 hours
\* to the current time.
PlaybackOneDayPerSecond ==
    /\ [](\A t \in timers : t.delay = 1000)
    /\ [](timers # {} <=> isPlaying)
    /\ [][lastOp' = "tick" =>
             /\ isPlaying
             /\ currentTime' = currentTime + 1440]_vars

\* C26: for any displayed current year C the years the dialog shows under
\* its 60 entries are exactly C - 59 .. C, each once, so exactly one entry is
\* highlighted (its year is C) and it is the entry named getGanZhiYear(C);
\* and a selection in the dialog never increases the current year.
DialogOffersLastSixtyYears ==
    /\ [](LET C == getFullYear(currentTime)
              shown == [k \in 1 .. 60 |-> jiaziYear(JIAZI_LIST[k], C)]
          IN /\ {shown[k] : k \in 1 .. 60} = (C - 59) .. C
             /\ \A j, k \in 1 .. 60 : shown[j] = shown[k] => j = k
             /\ Cardinality({k \in 1 .. 60 : shown[k] = C}) = 1
             /\ \A k \in 1 .. 60 :
                    shown[k] = C => JIAZI_LIST[k].name = getGanZhiYear(C))
    /\ [][lastOp' = "handleJiaziSelect" =>
             getFullYear(currentTime') <= getFullYear(currentTime)]_vars

====
